---- MODULE Spec2Model ----
(***************************************************************************)
(* The REST views of memex (src/src/memex/views.py): error rendering, the   *)
(* API descriptor, search, and the create/read/update/delete handlers with  *)
(* their post-commit annotation events.                                     *)
(*                                                                          *)
(* A request is one handler call inside one database transaction.  The      *)
(* handler runs to its return or to the exception it raises (one action),   *)
(* the transaction manager then commits or aborts, and the hooks that       *)
(* notify_after_commit registered run after a commit.                       *)
(***************************************************************************)
EXTENDS Integers, Sequences, FiniteSets, TLC

(* ------------------------------ bounds -------------------------------- *)

\* Requests served in one behaviour.
MaxRequests == 2

\* Longest tuple of methods a caller passes to api_config.
MaxMethods == 2

\* Longest application URL (scheme, host, port, prefix) of a route set-up.
MaxUrlLen == 3

(* ------------------------------ values -------------------------------- *)

IDS == {"a1", "a2"}
URIS == {"u1", "u2"}
GROUPS == {"g1", "g2"}

None == [type |-> "None"]

\* The stored fields of an annotation the views read: target_uri, groupid.
AnnotationFields == [target_uri : URIS, groupid : GROUPS]

\* Every content of the annotation table over IDS.
AllDbs == UNION {[S -> AnnotationFields] : S \in SUBSET IDS}

\* models.Annotation row `id` of a session.
Annotation(db_, id) ==
    [id |-> id, target_uri |-> db_[id].target_uri, groupid |-> db_[id].groupid]

\* A request body: not JSON at all, or a JSON object with a uri (possibly
\* missing, "") and a group.
Malformed == [json |-> FALSE, data |-> None]
JsonBodies == {[json |-> TRUE, data |-> [uri |-> u, group |-> g]] :
                  u \in URIS \cup {""}, g \in GROUPS}
BODIES == {Malformed} \cup JsonBodies

(* ---------------------------- exceptions ------------------------------ *)

DefaultStatusCode == 500

PayloadMessage == "Expected a valid JSON payload, but none was found!"

NoException == [class |-> "None"]

\* APIError.__init__(message, status_code=500); args is the argument tuple.
APIError(args) ==
    [class |-> "APIError",
     message |-> args[1],
     status_code |-> IF Len(args) >= 2 THEN args[2] ELSE DefaultStatusCode]

\* PayloadError.__init__(): APIError.__init__(message, status_code=400).
PayloadError ==
    [APIError(<<PayloadMessage, 400>>) EXCEPT !.class = "PayloadError"]

\* schemas.ValidationError(message).
ValidationError(message) == [class |-> "ValidationError", message |-> message]

\* Any exception that is neither an APIError nor a ValidationError.
OtherException(message) == [class |-> "Exception", message |-> message]

\* isinstance(e, APIError): PayloadError is a subclass.
IsAPIError(e) == e.class \in {"APIError", "PayloadError"}

\* What a failing collaborator raises, as class and constructor arguments.
RAISES == {[class |-> "APIError", args |-> <<"conflict">>],
           [class |-> "APIError", args |-> <<"gone", 410>>],
           [class |-> "Exception", args |-> <<"boom">>]}

Construct(raises) ==
    IF raises.class = "APIError" THEN APIError(raises.args)
    ELSE OtherException(raises.args[1])

NoFault == [at |-> "none", raises |-> [class |-> "None", args |-> <<>>]]
FAULTS == {NoFault} \cup
          {[at |-> a, raises |-> r] : a \in {"storage", "present"}, r \in RAISES}

VARIABLES
    db,            \* committed annotation table
    session,       \* request.db: the table as the open transaction sees it
    hooks,         \* events registered with notify_after_commit
    published,     \* events notified to subscribers, in order
    tx,            \* idle, active, committed, finished, aborted
    req,           \* the request being served
    exc,           \* the exception the handler raised, or NoException
    result,        \* the handler's return value
    response,      \* the rendered response
    calls,         \* the collaborators the handler called, in order
    schema,        \* the schema the handler built
    fetched,       \* what each storage.fetch_ordered_annotations returned
    kwargs,        \* the settings a caller passes to api_config
    view_settings, \* the settings api_config passes on to view_config
    app_url,       \* the application URL of the route set-up
    descriptor     \* what index returned

vars == <<db, session, hooks, published, tx, req, exc, result, response, calls,
          schema, fetched, kwargs, view_settings, app_url, descriptor>>

reqVars == <<db, session, hooks, published, tx, req, exc, result, response,
             calls, schema, fetched>>
cfgVars == <<kwargs, view_settings>>
idxVars == <<app_url, descriptor>>

(* ----------------------------- api_config ------------------------------ *)

\* A dict as a function from its keys; d.setdefault(k, v) and d.get(k, v).
Put(d, k, v) == [x \in DOMAIN d \cup {k} |-> IF x = k THEN v ELSE d[x]]
setdefault(d, k, v) == IF k \in DOMAIN d THEN d ELSE Put(d, k, v)
Get(d, k, v) == IF k \in DOMAIN d THEN d[k] ELSE v

\* A str and a tuple setting, told apart as isinstance does.
Str(s) == [type |-> "str", val |-> s]
Tuple(t) == [type |-> "tuple", val |-> t]

cors_policy ==
    [allow_headers |-> <<"Authorization", "Content-Type",
                         "X-Annotator-Auth-Token", "X-Client-Id">>,
     allow_methods |-> <<"HEAD", "GET", "POST", "PUT", "DELETE">>,
     allow_preflight |-> TRUE]

AllMethods == <<"DELETE", "GET", "HEAD", "POST", "PUT">>

api_config_NoDefault(settings) ==
    LET s1 == setdefault(settings, "accept", Str("application/json"))
        s2 == setdefault(s1, "renderer", Str("json"))
        s3 == setdefault(s2, "decorator", cors_policy)
        m0 == Get(s3, "request_method", Tuple(<<>>))
        m1 == IF m0.type # "tuple" THEN Tuple(<<m0.val>>) ELSE m0
    IN  Put(s3, "request_method", Tuple(m1.val \o <<"OPTIONS">>))

\* api_config(**settings): the settings handed to view_config.
api_config(settings) ==
    LET s1 == setdefault(settings, "accept", Str("application/json"))
        s2 == setdefault(s1, "renderer", Str("json"))
        s3 == setdefault(s2, "decorator", cors_policy)
        m0 == Get(s3, "request_method", Tuple(<<>>))
        m1 == IF m0.type # "tuple" THEN Tuple(<<m0.val>>) ELSE m0
        m2 == IF Len(m1.val) = 0 THEN Tuple(AllMethods) ELSE m1
    IN  Put(s3, "request_method", Tuple(m2.val \o <<"OPTIONS">>))

\* The settings callers pass: each of accept, renderer and decorator given
\* or not, request_method absent, one method, or a tuple of methods.
METHODS == {"GET", "POST", "OPTIONS"}
MethodTuples == UNION {[1..n -> METHODS] : n \in 0..MaxMethods}
MethodSettings == {Str(m) : m \in METHODS} \cup {Tuple(t) : t \in MethodTuples}
CustomDecorator == [allow_headers |-> <<>>, allow_methods |-> <<>>,
                    allow_preflight |-> FALSE]
Given(key) ==
    CASE key = "accept" -> {Str("text/html")}
      [] key = "renderer" -> {Str("string")}
      [] key = "decorator" -> {CustomDecorator}
      [] key = "request_method" -> MethodSettings
SettingKeys == {"accept", "renderer", "decorator", "request_method"}
KWARGS == UNION {{f \in [K -> UNION {Given(k) : k \in K}] :
                     \A k \in K : f[k] \in Given(k)} : K \in SUBSET SettingKeys}

ApiConfig ==
    /\ view_settings = None
    /\ view_settings' = api_config(kwargs)
    /\ UNCHANGED <<kwargs, reqVars, idxVars>>

(* -------------------------------- index ------------------------------- *)

\* URLs are sequences of characters.
URLCHARS == {"h", "1", "2", "3"}
AppUrls == UNION {[1..n -> URLCHARS] : n \in 0..MaxUrlLen}

RECURSIVE UrlQuote(_)
\* The percent-encoding route_url applies to a route parameter.
UrlQuote(s) ==
    IF s = <<>> THEN <<>>
    ELSE (IF Head(s) = ":" THEN <<"%", "3", "A">> ELSE <<Head(s)>>)
         \o UrlQuote(Tail(s))

AnnotationsPath == <<"/", "a", "n", "n", "o", "t", "a", "t", "i", "o", "n", "s">>
SearchPath == <<"/", "s", "e", "a", "r", "c", "h">>

\* request.route_url(name, id=...) under application URL `base`.
route_url(base, name, id) ==
    CASE name = "api.annotations" -> base \o AnnotationsPath
      [] name = "api.search" -> base \o SearchPath
      [] name = "api.annotation" ->
            base \o AnnotationsPath \o <<"/">> \o UrlQuote(id)

StartsWith(s, p) == Len(s) >= Len(p) /\ SubSeq(s, 1, Len(p)) = p

RECURSIVE Replace(_, _, _)
\* str.replace(old, new): every occurrence, left to right.
Replace(s, old, new) ==
    IF s = <<>> THEN <<>>
    ELSE IF StartsWith(s, old)
         THEN new \o Replace(SubSeq(s, Len(old) + 1, Len(s)), old, new)
         ELSE <<Head(s)>> \o Replace(Tail(s), old, new)

IdPlaceholder == <<":", "i", "d">>

\* index(context, request): the API descriptor document.
index(base) ==
    LET annotation_url ==
            Replace(route_url(base, "api.annotation", <<"1", "2", "3">>),
                    <<"1", "2", "3">>, IdPlaceholder)
    IN  [message |-> "Annotator Store API",
         links |->
           [annotation |->
              [create |-> [method |-> "POST",
                           url |-> route_url(base, "api.annotations", <<>>),
                           desc |-> "Create a new annotation"],
               read |-> [method |-> "GET", url |-> annotation_url,
                         desc |-> "Get an existing annotation"],
               update |-> [method |-> "PUT", url |-> annotation_url,
                           desc |-> "Update an existing annotation"],
               delete |-> [method |-> "DELETE", url |-> annotation_url,
                           desc |-> "Delete an annotation"]],
            search |-> [method |-> "GET",
                        url |-> route_url(base, "api.search", <<>>),
                        desc |-> "Basic search API"]]]

Index ==
    /\ descriptor = None
    /\ descriptor' = index(app_url)
    /\ UNCHANGED <<app_url, reqVars, cfgVars>>

(* ------------------------ the running handler ------------------------- *)

\* What a handler has done so far: the session, the registered hooks, the
\* published events, the collaborators called, the response it is filling,
\* the exception it raised and the value its last call returned.
Enter ==
    [session |-> session, hooks |-> hooks, published |-> published,
     calls |-> <<>>, schema |-> None, fetched |-> <<>>,
     response |-> [status_code |-> 200, content_type |-> "application/json",
                   body |-> None],
     exc |-> NoException, ret |-> None]

Raised(h) == h.exc.class # "None"
Raise(h, e) == [h EXCEPT !.exc = e]
Return(h, v) == [h EXCEPT !.ret = v]
Call(h, name, arg) == [h EXCEPT !.calls = Append(@, <<name, arg>>)]

Called(cs, name) == \E i \in 1..Len(cs) : cs[i][1] = name
CountCalls(cs, name, arg) ==
    Cardinality({i \in 1..Len(cs) : cs[i] = <<name, arg>>})

(* --------------------------- collaborators ---------------------------- *)

\* schemas.CreateAnnotationSchema(request)
CreateAnnotationSchema(h, request) ==
    IF Raised(h) THEN h
    ELSE [Call(h, "CreateAnnotationSchema", "") EXCEPT
             !.schema = [kind |-> "create", existing_target_uri |-> "",
                         groupid |-> ""]]

\* schemas.UpdateAnnotationSchema(request, existing_target_uri, groupid)
UpdateAnnotationSchema(h, request, existing_target_uri, groupid) ==
    IF Raised(h) THEN h
    ELSE [Call(h, "UpdateAnnotationSchema", "") EXCEPT
             !.schema = [kind |-> "update",
                         existing_target_uri |-> existing_target_uri,
                         groupid |-> groupid]]

UriRequired == "uri: 'uri' is a required property"
GroupFixed == "group: the annotation cannot be moved to this group"

\* Whether schema `sch` rejects JSON object `data`, and with what message.
Rejection(sch, data) ==
    IF data.uri = "" THEN UriRequired
    ELSE IF sch.kind = "update" /\ data.group # sch.groupid THEN GroupFixed
    ELSE ""

\* schema.validate(data): the appstruct, or ValidationError.
validate(h, data) ==
    IF Raised(h) THEN h
    ELSE LET h1 == Call(h, "validate", "")
         IN  IF Rejection(h.schema, data) # ""
             THEN Raise(h1, ValidationError(Rejection(h.schema, data)))
             ELSE Return(h1, [target_uri |-> data.uri, groupid |-> data.group])

\* request.find_service(...)
find_service(h, name) ==
    IF Raised(h) THEN h ELSE Call(h, "find_service", name)

\* storage.create_annotation(request, appstruct, group_service)
storage_create_annotation(h, request, appstruct) ==
    IF Raised(h) THEN h
    ELSE LET h1 == Call(h, "storage.create_annotation", request.newid)
         IN  IF request.fault.at = "storage"
             THEN Raise(h1, Construct(request.fault.raises))
             ELSE LET s == Put(h.session, request.newid, appstruct)
                  IN  Return([h1 EXCEPT !.session = s],
                             Annotation(s, request.newid))

\* storage.update_annotation(request.db, id, appstruct)
storage_update_annotation(h, request, id, appstruct) ==
    IF Raised(h) THEN h
    ELSE LET h1 == Call(h, "storage.update_annotation", id)
         IN  IF request.fault.at = "storage"
             THEN Raise(h1, Construct(request.fault.raises))
             ELSE LET s == Put(h.session, id, appstruct)
                  IN  Return([h1 EXCEPT !.session = s], Annotation(s, id))

\* storage.delete_annotation(request.db, id)
storage_delete_annotation(h, request, id) ==
    IF Raised(h) THEN h
    ELSE LET h1 == Call(h, "storage.delete_annotation", id)
         IN  IF request.fault.at = "storage"
             THEN Raise(h1, Construct(request.fault.raises))
             ELSE [h1 EXCEPT !.session =
                      [x \in DOMAIN h.session \ {id} |-> h.session[x]]]

\* The ids of `ids` that have a row, each once, in the order of `ids`.
Existing(s, ids) == SelectSeq(ids, LAMBDA i : i \in DOMAIN s)

\* storage.fetch_ordered_annotations(request.db, ids, query_processor)
fetch_ordered_annotations(h, request, ids) ==
    IF Raised(h) THEN h
    ELSE LET h1 == Call(h, "storage.fetch_ordered_annotations", "")
             found == Existing(h.session, ids)
             anns == [i \in 1..Len(found) |-> Annotation(h.session, found[i])]
         IN  IF request.fault.at = "storage"
             THEN Raise(h1, Construct(request.fault.raises))
             ELSE Return([h1 EXCEPT !.fetched = Append(@, anns)], anns)

\* AnnotationEvent(request, annotation_id, action)
AnnotationEvent(request, annotation_id, action) ==
    [request |-> request.no, annotation_id |-> annotation_id,
     action |-> action]

\* request.notify_after_commit(event): the event is notified once the
\* transaction has committed, and dropped when it aborts.
notify_after_commit(h, event) ==
    [Call(h, "notify_after_commit", event.action) EXCEPT
        !.hooks = Append(@, event)]

\* request.registry.notify(event): subscribers get the event now.
notify(h, event) ==
    [Call(h, "notify", event.action) EXCEPT !.published = Append(@, event)]

\* AnnotationJSONPresenter(AnnotationResource(...)).asdict() of one annotation.
asdict(annotation) ==
    [id |-> annotation.id, uri |-> annotation.target_uri,
     group |-> annotation.groupid]

\* AnnotationJSONLDPresenter(context).asdict()
asdict_jsonld(annotation) ==
    [context |-> "http://www.w3.org/ns/anno.jsonld", type |-> "Annotation",
     id |-> annotation.id, target |-> annotation.target_uri]

\* Constructing the resource and presenter of `annotation` and calling asdict.
present(h, request, annotation) ==
    IF Raised(h) THEN h
    ELSE LET h1 == Call(h, "AnnotationJSONPresenter.asdict", annotation.id)
         IN  IF request.fault.at = "present"
             THEN Raise(h1, Construct(request.fault.raises))
             ELSE Return(h1, asdict(annotation))

(* ------------------------------- views -------------------------------- *)

error_api_StatusUnset(context, resp) ==
    [resp EXCEPT !.body = [status |-> "failure", reason |-> context.message]]

\* error_api(context, request): the view of an APIError.
error_api(context, resp) ==
    [resp EXCEPT !.status_code = context.status_code,
                 !.body = [status |-> "failure", reason |-> context.message]]

\* error_validation(context, request): the view of a ValidationError.
error_validation(context, resp) ==
    [resp EXCEPT !.status_code = 400,
                 !.body = [status |-> "failure", reason |-> context.message]]

\* The exception view chosen by the class of the exception; an exception
\* with no view of this module becomes the framework's server error.
RenderException(e, resp) ==
    IF e.class = "ValidationError" THEN error_validation(e, resp)
    ELSE IF IsAPIError(e) THEN error_api(e, resp)
    ELSE [resp EXCEPT !.status_code = 500, !.body = None]

_json_payload_NoCatch(h, request) ==
    IF Raised(h) THEN h
    ELSE LET h1 == Call(h, "request.json_body", "")
         IN  IF request.body.json THEN Return(h1, request.body.data)
             ELSE Raise(h1, OtherException("ValueError"))

\* _json_payload(request): the parsed body, or PayloadError.
_json_payload(h, request) ==
    IF Raised(h) THEN h
    ELSE LET h1 == Call(h, "request.json_body", "")
         IN  IF request.body.json THEN Return(h1, request.body.data)
             ELSE Raise(h1, PayloadError)

PresentEach_Reversed(h, request, annotations) ==
    IF Raised(h) THEN h
    ELSE LET n == Len(annotations)
             h1 == [h EXCEPT !.calls = @ \o
                       [i \in 1..n |-> <<"AnnotationJSONPresenter.asdict",
                                         annotations[i].id>>]]
         IN  IF n > 0 /\ request.fault.at = "present"
             THEN Raise(h1, Construct(request.fault.raises))
             ELSE Return(h1, [i \in 1..n |-> asdict(annotations[n + 1 - i])])

\* [AnnotationJSONPresenter(AnnotationResource(ann, ...)).asdict()
\*  for ann in annotations]
PresentEach(h, request, annotations) ==
    IF Raised(h) THEN h
    ELSE LET n == Len(annotations)
             h1 == [h EXCEPT !.calls = @ \o
                       [i \in 1..n |-> <<"AnnotationJSONPresenter.asdict",
                                         annotations[i].id>>]]
         IN  IF n > 0 /\ request.fault.at = "present"
             THEN Raise(h1, Construct(request.fault.raises))
             ELSE Return(h1, [i \in 1..n |-> asdict(annotations[i])])

\* _present_annotations(request, ids)
_present_annotations(h, request, ids) ==
    LET h1 == fetch_ordered_annotations(h, request, ids)
        h2 == find_service(h1, "IGroupService")
        h3 == find_service(h2, "links")
    IN  PresentEach(h3, request, h1.ret)

_publish_annotation_event_Now(h, request, annotation, action) ==
    IF Raised(h) THEN h
    ELSE notify(h, AnnotationEvent(request, annotation.id, action))

\* _publish_annotation_event(request, annotation, action)
_publish_annotation_event(h, request, annotation, action) ==
    IF Raised(h) THEN h
    ELSE notify_after_commit(h, AnnotationEvent(request, annotation.id, action))

\* Python truth of a parameter value: a bool, or a str that is not empty.
Bool(b) == [type |-> "bool", val |-> b]
Truthy(x) == IF x.type = "bool" THEN x.val ELSE x.val # ""

\* search_lib.Search(request, separate_replies=..., stats=...).run(params):
\* the ids the index holds for the query; the replies come apart from the
\* annotations only when separate_replies is true.
SearchRun(h, request, separate_replies) ==
    IF Raised(h) THEN h
    ELSE LET f == request.found
             h1 == Call(h, "Search.run",
                        IF Truthy(separate_replies) THEN "separate_replies"
                        ELSE "")
         IN  IF Truthy(separate_replies)
             THEN Return(h1, [total |-> Len(f.annotation_ids),
                              annotation_ids |-> f.annotation_ids,
                              reply_ids |-> f.reply_ids])
             ELSE Return(h1, [total |-> Len(f.annotation_ids) + Len(f.reply_ids),
                              annotation_ids |-> f.annotation_ids \o f.reply_ids,
                              reply_ids |-> <<>>])

\* search(request)
search(h, request) ==
    LET separate_replies == Get(request.params, "_separate_replies", Bool(FALSE))
        h1 == SearchRun(h, request, separate_replies)
        h2 == _present_annotations(h1, request, h1.ret.annotation_ids)
        h3 == IF Truthy(separate_replies)
              THEN _present_annotations(h2, request, h1.ret.reply_ids)
              ELSE h2
    IN  IF Raised(h3) THEN h3
        ELSE IF Truthy(separate_replies)
        THEN Return(h3, [total |-> h1.ret.total, rows |-> h2.ret,
                         replies |-> h3.ret])
        ELSE Return(h3, [total |-> h1.ret.total, rows |-> h2.ret])

create_StoreFirst(h, request) ==
    LET h1 == CreateAnnotationSchema(h, request)
        h2 == _json_payload(h1, request)
        h3 == find_service(h2, "IGroupService")
        h4 == storage_create_annotation(
                  h3, request,
                  [target_uri |-> h2.ret.uri, groupid |-> h2.ret.group])
        h5 == validate(h4, h2.ret)
        h6 == _publish_annotation_event(h5, request, h4.ret, "create")
        h7 == find_service(h6, "links")
        h8 == find_service(h7, "IGroupService")
    IN  present(h8, request, h4.ret)

\* create(request)
create(h, request) ==
    LET h1 == CreateAnnotationSchema(h, request)
        h2 == _json_payload(h1, request)
        h3 == validate(h2, h2.ret)
        h4 == find_service(h3, "IGroupService")
        h5 == storage_create_annotation(h4, request, h3.ret)
        h6 == _publish_annotation_event(h5, request, h5.ret, "create")
        h7 == find_service(h6, "links")
        h8 == find_service(h7, "IGroupService")
    IN  present(h8, request, h5.ret)

\* read(context, request)
read(h, request) == present(h, request, request.context)

\* read_jsonld(context, request)
read_jsonld(h, request) ==
    LET h1 == [h EXCEPT !.response.content_type =
                  "application/ld+json; profile=http://www.w3.org/ns/anno.jsonld"]
        h2 == Call(h1, "AnnotationJSONLDPresenter.asdict", request.context.id)
    IN  IF request.fault.at = "present"
        THEN Raise(h2, Construct(request.fault.raises))
        ELSE Return(h2, asdict_jsonld(request.context))

update_CreateAction(h, request) ==
    LET h1 == UpdateAnnotationSchema(h, request, request.context.target_uri,
                                     request.context.groupid)
        h2 == _json_payload(h1, request)
        h3 == validate(h2, h2.ret)
        h4 == storage_update_annotation(h3, request, request.context.id, h3.ret)
        h5 == _publish_annotation_event(h4, request, h4.ret, "create")
        h6 == find_service(h5, "links")
        h7 == find_service(h6, "IGroupService")
    IN  present(h7, request, h4.ret)

\* update(context, request)
update(h, request) ==
    LET h1 == UpdateAnnotationSchema(h, request, request.context.target_uri,
                                     request.context.groupid)
        h2 == _json_payload(h1, request)
        h3 == validate(h2, h2.ret)
        h4 == storage_update_annotation(h3, request, request.context.id, h3.ret)
        h5 == _publish_annotation_event(h4, request, h4.ret, "update")
        h6 == find_service(h5, "links")
        h7 == find_service(h6, "IGroupService")
    IN  present(h7, request, h4.ret)

\* delete(context, request)
delete(h, request) ==
    LET h1 == storage_delete_annotation(h, request, request.context.id)
        h2 == _publish_annotation_event(h1, request, request.context, "delete")
    IN  IF Raised(h2) THEN h2
        ELSE Return(h2, [id |-> request.context.id, deleted |-> TRUE])

(* ------------------------------ requests ------------------------------ *)

EmptyDict == [x \in {} |-> None]

\* The query parameters of a search: _separate_replies absent or given.
SEPARATE_VALUES == {"", "false", "true"}
PARAMS == {EmptyDict} \cup
          {[k \in {"_separate_replies"} |-> Str(v)] : v \in SEPARATE_VALUES}

\* What the search index holds for a query: the ids of the matching
\* annotations and of their replies, each id once, in ranking order.
DistinctSeqs(S) ==
    {q \in UNION {[1..n -> S] : n \in 0..Cardinality(S)} :
        \A i, j \in 1..Len(q) : i # j => q[i] # q[j]}
FOUND == {f \in [annotation_ids : DistinctSeqs(IDS),
                 reply_ids : DistinctSeqs(IDS)] :
             \A i \in 1..Len(f.annotation_ids), j \in 1..Len(f.reply_ids) :
                f.annotation_ids[i] # f.reply_ids[j]}
NoneFound == [annotation_ids |-> <<>>, reply_ids |-> <<>>]

\* Request number `n` before a route has matched.
NoRequest(n) ==
    [no |-> n, handler |-> "none", context |-> None, body |-> Malformed,
     params |-> EmptyDict, found |-> NoneFound, fault |-> NoFault,
     newid |-> ""]

Idle == tx = "idle" /\ req.no < MaxRequests

\* The handler of `request` has run to `h`; the transaction is still open.
Serve(request, h) ==
    /\ req' = request
    /\ tx' = "active"
    /\ session' = h.session
    /\ hooks' = h.hooks
    /\ published' = h.published
    /\ calls' = h.calls
    /\ schema' = h.schema
    /\ fetched' = h.fetched
    /\ exc' = h.exc
    /\ result' = IF Raised(h) THEN None ELSE h.ret
    /\ response' = h.response
    /\ UNCHANGED <<db, cfgVars, idxVars>>

Create ==
    /\ Idle
    /\ \E body \in BODIES, fault \in FAULTS, newid \in IDS \ DOMAIN db :
          LET request == [NoRequest(req.no + 1) EXCEPT
                             !.handler = "create", !.body = body,
                             !.fault = fault, !.newid = newid]
          IN  Serve(request, create(Enter, request))

Read ==
    /\ Idle
    /\ \E id \in DOMAIN db, fault \in {f \in FAULTS : f.at # "storage"} :
          LET request == [NoRequest(req.no + 1) EXCEPT
                             !.handler = "read", !.fault = fault,
                             !.context = Annotation(session, id)]
          IN  Serve(request, read(Enter, request))

ReadJsonld ==
    /\ Idle
    /\ \E id \in DOMAIN db, fault \in {f \in FAULTS : f.at # "storage"} :
          LET request == [NoRequest(req.no + 1) EXCEPT
                             !.handler = "read_jsonld", !.fault = fault,
                             !.context = Annotation(session, id)]
          IN  Serve(request, read_jsonld(Enter, request))

Update ==
    /\ Idle
    /\ \E id \in DOMAIN db, body \in BODIES, fault \in FAULTS :
          LET request == [NoRequest(req.no + 1) EXCEPT
                             !.handler = "update", !.body = body,
                             !.fault = fault,
                             !.context = Annotation(session, id)]
          IN  Serve(request, update(Enter, request))

Delete ==
    /\ Idle
    /\ \E id \in DOMAIN db, fault \in {f \in FAULTS : f.at # "present"} :
          LET request == [NoRequest(req.no + 1) EXCEPT
                             !.handler = "delete", !.fault = fault,
                             !.context = Annotation(session, id)]
          IN  Serve(request, delete(Enter, request))

Search ==
    /\ Idle
    /\ \E params \in PARAMS, found \in FOUND, fault \in FAULTS :
          LET request == [NoRequest(req.no + 1) EXCEPT
                             !.handler = "search", !.params = params,
                             !.found = found, !.fault = fault]
          IN  Serve(request, search(Enter, request))

(* --------------------------- the transaction -------------------------- *)

\* The handler returned: the transaction commits and the return value is
\* rendered as the response body.
Commit ==
    /\ tx = "active" /\ exc = NoException
    /\ db' = session
    /\ tx' = "committed"
    /\ response' = [response EXCEPT !.body = result]
    /\ UNCHANGED <<session, hooks, published, req, exc, result, calls, schema,
                   fetched, cfgVars, idxVars>>

\* The handler returned but the database refuses the commit.
CommitFails ==
    /\ tx = "active" /\ exc = NoException /\ session # db
    /\ session' = db
    /\ hooks' = <<>>
    /\ tx' = "aborted"
    /\ exc' = OtherException("commit failed")
    /\ response' = RenderException(OtherException("commit failed"), response)
    /\ UNCHANGED <<db, published, req, result, calls, schema, fetched,
                   cfgVars, idxVars>>

\* The handler raised: the transaction is rolled back, its hooks are
\* dropped and the exception view renders the response.
Abort ==
    /\ tx = "active" /\ exc # NoException
    /\ session' = db
    /\ hooks' = <<>>
    /\ tx' = "aborted"
    /\ response' = RenderException(exc, response)
    /\ UNCHANGED <<db, published, req, exc, result, calls, schema, fetched,
                   cfgVars, idxVars>>

\* The after-commit hooks run: each registered event is notified.
AfterCommit ==
    /\ tx = "committed"
    /\ published' = published \o hooks
    /\ hooks' = <<>>
    /\ tx' = "finished"
    /\ UNCHANGED <<db, session, req, exc, result, response, calls, schema,
                   fetched, cfgVars, idxVars>>

\* The response is sent and the request's objects are dropped.
Finish ==
    /\ tx \in {"finished", "aborted"}
    /\ tx' = "idle"
    /\ req' = NoRequest(req.no)
    /\ exc' = NoException
    /\ result' = None
    /\ response' = None
    /\ calls' = <<>>
    /\ schema' = None
    /\ fetched' = <<>>
    /\ UNCHANGED <<db, session, hooks, published, cfgVars, idxVars>>

(* --------------------------- specifications --------------------------- *)

ReqInit(dbs) ==
    /\ db \in dbs
    /\ session = db
    /\ hooks = <<>>
    /\ published = <<>>
    /\ tx = "idle"
    /\ req = NoRequest(0)
    /\ exc = NoException
    /\ result = None
    /\ response = None
    /\ calls = <<>>
    /\ schema = None
    /\ fetched = <<>>

CfgInit(settings) == kwargs \in settings /\ view_settings = None

IdxInit(urls) == app_url \in urls /\ descriptor = None

\* The service over any stored annotations.
Init == ReqInit(AllDbs) /\ CfgInit({EmptyDict}) /\ IdxInit({<<>>})

Next ==
    \/ Create
    \/ Read
    \/ ReadJsonld
    \/ Update
    \/ Delete
    \/ Search
    \/ Commit
    \/ CommitFails
    \/ Abort
    \/ AfterCommit
    \/ Finish

Spec == Init /\ [][Next]_vars

\* api_config applied to every settings a caller may pass.
InitApiConfig == ReqInit({EmptyDict}) /\ CfgInit(KWARGS) /\ IdxInit({<<>>})
NextApiConfig == ApiConfig
SpecApiConfig == InitApiConfig /\ [][NextApiConfig]_vars

\* index under every application URL.
InitIndex == ReqInit({EmptyDict}) /\ CfgInit({EmptyDict}) /\ IdxInit(AppUrls)
NextIndex == Index
SpecIndex == InitIndex /\ [][NextIndex]_vars

(* ------------------------------- claims ------------------------------- *)

Mutating == {"create", "update", "delete"}

\* The published events of request number n.
EventsOf(n) == SelectSeq(published, LAMBDA e : e.request = n)

Handled == tx = "active" /\ exc = NoException

\* The failure envelope of exception e.
Envelope(e) == [status |-> "failure", reason |-> e.message]

\* The schema of the request's handler over the annotation as stored before
\* the request.
PriorSchema(r) ==
    IF r.handler = "update"
    THEN [kind |-> "update",
          existing_target_uri |-> db[r.context.id].target_uri,
          groupid |-> db[r.context.id].groupid]
    ELSE [kind |-> "create", existing_target_uri |-> "", groupid |-> ""]

\* A create or update whose body is not JSON or is rejected by the schema.
InvalidPayload(r) ==
    /\ r.handler \in {"create", "update"}
    /\ \/ ~r.body.json
       \/ Rejection(PriorSchema(r), r.body.data) # ""

\* C1: a mutating request that succeeds has exactly one published event,
\* published only once its transaction has committed; while the transaction
\* is open, and when the request fails at any step (also after the event was
\* handed to notify_after_commit), the request has no published event.
C1_OneEventAfterCommit ==
    /\ \A i \in 1..Len(published) : published[i].request <= req.no
    /\ \A n \in 1..req.no : Len(EventsOf(n)) <= 1
    /\ tx \in {"active", "committed", "aborted"} => EventsOf(req.no) = <<>>
    /\ (tx = "finished" /\ req.handler \in Mutating) =>
          /\ db = session
          /\ Len(EventsOf(req.no)) = 1
          /\ published[Len(published)].request = req.no

\* A create that failed while presenting, after its event was registered,
\* in a service that has published the event of an earlier request.
C1_Witness ==
    /\ tx = "aborted" /\ req.handler = "create"
    /\ Called(calls, "notify_after_commit")
    /\ Len(published) = 1

\* C2: a create or update with a body that is not JSON or fails validation
\* never calls storage to create or update, registers and publishes no
\* event, leaves the storage as it was, and is answered with status 400.
C2_InvalidPayloadNoStorage ==
    (tx \in {"active", "aborted"} /\ InvalidPayload(req)) =>
        /\ ~Called(calls, "storage.create_annotation")
        /\ ~Called(calls, "storage.update_annotation")
        /\ ~Called(calls, "notify_after_commit")
        /\ ~Called(calls, "notify")
        /\ exc.class \in {"PayloadError", "ValidationError"}
        /\ session = db
        /\ hooks = <<>>
        /\ EventsOf(req.no) = <<>>
        /\ tx = "aborted" => response.status_code = 400

\* An update answered after its JSON body was rejected for its group.
C2_Witness ==
    /\ tx = "aborted" /\ req.handler = "update"
    /\ req.body.json /\ req.body.data.uri # ""
    /\ exc.class = "ValidationError"

\* C3: a create or update whose body is not JSON raises PayloadError and is
\* answered with status 400 and the fixed failure body, whatever the schema
\* is built from and whatever the annotation was.
C3_MalformedBody ==
    (tx \in {"active", "aborted"} /\ req.handler \in {"create", "update"}
        /\ ~req.body.json) =>
        /\ exc.class = "PayloadError"
        /\ tx = "aborted" =>
              /\ response.status_code = 400
              /\ response.body =
                    [status |-> "failure",
                     reason |-> "Expected a valid JSON payload, but none was found!"]

\* An update of a stored annotation, with a failing collaborator, answered
\* after its body did not parse.
C3_Witness ==
    /\ tx = "aborted" /\ req.handler = "update"
    /\ ~req.body.json /\ req.fault.at # "none"
    /\ req.context.groupid = "g2"

\* C4: the delete event of a successful delete carries the annotation as it
\* was before the deletion, with its target URI, not only its id.
C4_DeleteEventCarriesAnnotation ==
    (tx = "finished" /\ req.handler = "delete") =>
        \E i \in 1..Len(published) :
            /\ published[i].request = req.no
            /\ published[i].action = "delete"
            /\ "target_uri" \in DOMAIN published[i]
            /\ published[i].target_uri = req.context.target_uri

\* Whether the query asks for the replies to be separated.
RequestsSeparation(params) ==
    /\ "_separate_replies" \in DOMAIN params
    /\ params["_separate_replies"].val = "true"

\* C5: a search result has total and rows, and has replies exactly when
\* _separate_replies is present and true; otherwise the search is run
\* without reply separation.
C5_RepliesIffRequested ==
    (Handled /\ req.handler = "search") =>
        /\ {"total", "rows"} \subseteq DOMAIN result
        /\ ("replies" \in DOMAIN result) <=> RequestsSeparation(req.params)
        /\ ~RequestsSeparation(req.params) =>
              CountCalls(calls, "Search.run", "") = 1

\* rows are the presentations of anns, one each, in the same order.
PresentedInOrder(rows, anns) ==
    /\ Len(rows) = Len(anns)
    /\ \A i \in 1..Len(rows) :
          rows[i] = [id |-> anns[i].id, uri |-> anns[i].target_uri,
                     group |-> anns[i].groupid]

\* C6: rows, and replies when present, are the presentations of the records
\* the storage fetch returned, in the same order, none dropped, added or
\* repeated; the group and links services are looked up once per batch.
C6_PresentedInFetchOrder ==
    (Handled /\ req.handler = "search") =>
        /\ Len(fetched) = IF "replies" \in DOMAIN result THEN 2 ELSE 1
        /\ PresentedInOrder(result.rows, fetched[1])
        /\ "replies" \in DOMAIN result =>
              PresentedInOrder(result.replies, fetched[2])
        /\ CountCalls(calls, "find_service", "IGroupService") = Len(fetched)
        /\ CountCalls(calls, "find_service", "links") = Len(fetched)

\* A search that presented two annotations ranked against the order of
\* their ids.
C6_Witness ==
    /\ Handled /\ req.handler = "search"
    /\ Len(result.rows) = 2
    /\ result.rows[1].id = "a2"

\* C7: every handled error is rendered as the failure envelope with the
\* error's message: a ValidationError and a PayloadError with status 400,
\* another APIError with the status code it was constructed with, 500 when
\* it was constructed with none.
C7_ErrorEnvelope ==
    (tx = "aborted" /\ exc.class \in {"ValidationError", "PayloadError", "APIError"}) =>
        /\ response.body = Envelope(exc)
        /\ exc.class \in {"ValidationError", "PayloadError"} =>
              response.status_code = 400
        /\ exc.class = "APIError" =>
              /\ response.body.reason = req.fault.raises.args[1]
              /\ response.status_code =
                    IF Len(req.fault.raises.args) >= 2
                    THEN req.fault.raises.args[2] ELSE 500

\* A search answered after a collaborator raised an APIError constructed
\* with no status code.
C7_Witness ==
    /\ tx = "aborted" /\ req.handler = "search"
    /\ exc.class = "APIError"
    /\ Len(req.fault.raises.args) = 1

\* The id storage was called with or created, by the name of the call.
StorageId(name) ==
    LET i == CHOOSE k \in 1..Len(calls) : calls[k][1] = name IN calls[i][2]

\* The position of the first call of `name`.
FirstCall(name) == CHOOSE k \in 1..Len(calls) : calls[k][1] = name

\* C8: the event of a successful mutating handler has that handler's action
\* kind; for create and update its annotation id is the id of the annotation
\* storage returned, which is the annotation presented in the response;
\* update validates against a schema built from the annotation's prior
\* target URI and group, before storage is called.
C8_EventOfNewState ==
    /\ (Handled /\ req.handler \in Mutating) =>
          /\ Len(hooks) = 1
          /\ hooks[1].request = req.no
          /\ hooks[1].action = req.handler
    /\ (Handled /\ req.handler = "create") =>
          /\ hooks[1].annotation_id = StorageId("storage.create_annotation")
          /\ result = asdict(Annotation(session, hooks[1].annotation_id))
    /\ (Handled /\ req.handler = "update") =>
          /\ hooks[1].annotation_id = StorageId("storage.update_annotation")
          /\ result = asdict(Annotation(session, hooks[1].annotation_id))
    /\ (tx = "finished" /\ req.handler \in {"create", "update"}) =>
          /\ published[Len(published)].action = req.handler
          /\ published[Len(published)].annotation_id = response.body.id
          /\ response.body = asdict(Annotation(db, response.body.id))
    /\ (tx \in {"active", "aborted"} /\ req.handler = "update") =>
          /\ schema = PriorSchema(req)
          /\ Called(calls, "storage.update_annotation") =>
                /\ Called(calls, "validate")
                /\ FirstCall("validate") < FirstCall("storage.update_annotation")

\* An update that changed the target URI, committed and published.
C8_Witness ==
    /\ tx = "finished" /\ req.handler = "update"
    /\ req.context.target_uri # db[req.context.id].target_uri

\* The methods a caller gave to api_config.
GivenMethods ==
    IF "request_method" \notin DOMAIN kwargs THEN <<>>
    ELSE IF kwargs["request_method"].type = "str"
         THEN <<kwargs["request_method"].val>>
         ELSE kwargs["request_method"].val

\* C9: the request_method api_config hands on is the given methods followed
\* by OPTIONS, with DELETE, GET, HEAD, POST, PUT for the methods when none
\* is given; accept, renderer and decorator given by the caller are kept,
\* and the defaults fill in for those not given.
C9_OptionsOnEveryRoute ==
    view_settings # None =>
        /\ view_settings["request_method"] =
              Tuple((IF GivenMethods = <<>>
                     THEN <<"DELETE", "GET", "HEAD", "POST", "PUT">>
                     ELSE GivenMethods) \o <<"OPTIONS">>)
        /\ \A k \in {"accept", "renderer", "decorator"} :
              k \in DOMAIN kwargs => view_settings[k] = kwargs[k]
        /\ "accept" \notin DOMAIN kwargs =>
              view_settings["accept"] = Str("application/json")
        /\ "renderer" \notin DOMAIN kwargs =>
              view_settings["renderer"] = Str("json")
        /\ "decorator" \notin DOMAIN kwargs =>
              view_settings["decorator"] = cors_policy

\* api_config applied to a tuple of two methods and the caller's own accept.
C9_Witness ==
    /\ view_settings # None
    /\ "accept" \in DOMAIN kwargs
    /\ GivenMethods = <<"POST", "GET">>

\* C10: the read, update and delete entries of the descriptor carry the
\* api.annotation URL with the id segment, and nothing else, replaced by
\* :id; index calls no collaborator and publishes nothing.
C10_TemplateOnlyIdReplaced ==
    descriptor # None =>
        /\ \A op \in {"read", "update", "delete"} :
              descriptor.links.annotation[op].url =
                 app_url \o AnnotationsPath \o <<"/", ":", "i", "d">>
        /\ calls = <<>> /\ published = <<>> /\ session = db

====
